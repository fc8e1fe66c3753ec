------------------------------ MODULE Plugins -------------------------------
(***************************************************************************)
(* The repository of components and the registrar of error categories of   *)
(* several nodes: each one loads its plugins in the order of their paths,  *)
(* lets them register factories and categories, makes components with the  *)
(* factories, and takes all down again.  dlopen() is external.             *)
(***************************************************************************)
EXTENDS Integers, Sequences, FiniteSets, FiniteSetsExt

CONSTANTS
  Nodes,          \* those that load plugins
  Installed,      \* node -> its plugins, which are numbers: the order of the paths
  Refused,        \* plugins that do not open, are too new or have no initialize()
  Calls,         \* plugin -> what initialize() does, call by call
  Categories      \* names of error categories, registered or not

Core == 0         \* the code that is not in a plugin
Component(c) == [kind |-> "component", name |-> c]
Category(c, id) == [kind |-> "category", name |-> c, id |-> id]
Failure == [kind |-> "throw"]
UnknownCategory == "unknown"

\* The k-th call of initialize() of p claims a number for a category.
Claims(p, k) == k \in DOMAIN Calls[p] /\ Calls[p][k].kind = "category"

\* It comes before the l-th call of q on a node that loads both.
Before(p, k, q, l) == p < q \/ (p = q /\ k < l)

\* The numbers and names that a node may come to have: its own, and of those
\* its plugins claim the first one for each number.
OwnNumbers == {<<1, "system">>, <<255, UnknownCategory>>}
FirstClaim(n, p, k) ==
  /\ p \in Installed[n] /\ Claims(p, k) /\ Calls[p][k].id \notin {1, 255}
  /\ \A q \in Installed[n] : \A l \in DOMAIN Calls[q] :
       Claims(q, l) /\ Before(q, l, p, k) => Calls[q][l].id # Calls[p][k].id
Numbers(n) ==
  OwnNumbers \cup
  {<<Calls[x[1]][x[2]].id, Calls[x[1]][x[2]].name>> :
     x \in {y \in Installed[n] \X UNION {DOMAIN Calls[p] : p \in Installed[n]} : FirstClaim(n, y[1], y[2])}}

\* Plugins that claim one number for two categories are refused only by a node
\* that loads both, so no two nodes may load one each.
ASSUME PluginsAssumption ==
  /\ \A n \in Nodes : IsFiniteSet(Installed[n]) /\ Installed[n] \subseteq Nat \ {Core}
  /\ \A n \in Nodes : \A p \in Installed[n] :
       /\ Calls[p] \in Seq(Range(Calls[p]))
       /\ \A k \in DOMAIN Calls[p] : Calls[p][k].kind \in {"component", "category", "throw"}
  /\ \A n, m \in Nodes : \A x \in Numbers(n), y \in Numbers(m) : x[1] = y[1] => x[2] = y[2]

VARIABLES
  life,          \* node -> loading, running, released, unloading or down
  paths,          \* node -> plugins that are still to be loaded
  opening,        \* node -> the calls its plugin has made, if one is being initialized
  m_plugins,      \* node -> handles, in the order they were opened
  m_categories,   \* node -> component -> the plugin of its factory
  mapping,        \* node -> records of the registrar
  mapped,         \* node -> plugins whose code is in memory
  made,           \* node -> plugins whose components are alive
  failed          \* node -> the plugin whose initialize() threw

repositoryVars == <<life, paths, opening, m_plugins, m_categories>>
pluginVars == <<repositoryVars, mapping, mapped, made, failed>>

CategoryRecord(id, c, owner) == [id |-> id, name |-> c, owner |-> owner]

\* The order in which plugins are loaded.
SortedPaths(S) == CHOOSE s \in [1..Cardinality(S) -> S] : \A i, j \in DOMAIN s : i < j => s[i] < s[j]

\* essentials::initialize() and the registrar's own categories.
PluginsInit(nodes) ==
  /\ life = [n \in nodes |-> "loading"]
  /\ paths = [n \in nodes |-> SortedPaths(Installed[n])]
  /\ opening = [n \in nodes |-> -1]
  /\ m_plugins = [n \in nodes |-> <<>>]
  /\ m_categories = [n \in nodes |-> [c \in {"locator"} |-> Core]]
  /\ mapping = [n \in nodes |-> <<CategoryRecord(1, "system", Core), CategoryRecord(255, UnknownCategory, Core)>>]
  /\ mapped = [n \in nodes |-> {Core}]
  /\ made = [n \in nodes |-> {}] /\ failed = [n \in nodes |-> {}]

-----------------------------------------------------------------------------
\* registrar::map(ec) and map(id): the first record that fits.
MapCategory(n, c) ==
  LET fits == {i \in DOMAIN mapping[n] : mapping[n][i].name = c}
  IN  IF fits = {} THEN 255 ELSE mapping[n][Min(fits)].id
MapId(n, id) ==
  LET fits == {i \in DOMAIN mapping[n] : mapping[n][i].id = id}
  IN  IF fits = {} THEN UnknownCategory ELSE mapping[n][Min(fits)].name

\* Mutant: categories are numbered as they come.
AddInOrder(n, c, id, p) == Append(mapping[n], CategoryRecord(Len(mapping[n]), c, p))

\* registrar::add(), where it does not throw.
Add(n, c, id, p) ==
  IF \E r \in Range(mapping[n]) : r.id = id THEN mapping[n] ELSE Append(mapping[n], CategoryRecord(id, c, p))

\* insert(), where it does not throw.
InsertFactory(factories, name, p) == [c \in {name} \cup DOMAIN factories |-> IF c = name THEN p ELSE factories[c]]

\* The calls of initialize() that throw.
Throws(n, s) ==
  CASE s.kind = "component" -> s.name \in DOMAIN m_categories[n]
    [] s.kind = "category" -> MapId(n, s.id) # s.name /\ \E r \in Range(mapping[n]) : r.id = s.id
    [] s.kind = "throw" -> TRUE

-----------------------------------------------------------------------------
\* The stack is unwound out of the constructor of the context: open()'s own
\* handle is closed, and the repository is destroyed.
Unwind(n, p) ==
  /\ life' = [life EXCEPT ![n] = "released"]
  /\ opening' = [opening EXCEPT ![n] = -1]
  /\ mapped' = [mapped EXCEPT ![n] = @ \ {p}]
  /\ UNCHANGED <<paths, m_plugins, made>>

\* open() up to the call of initialize().
Open(n) ==
  /\ life[n] = "loading" /\ opening[n] = -1 /\ paths[n] # <<>>
  /\ UNCHANGED <<m_categories, mapping, failed>>
  /\ \E p \in {Head(paths[n])} :
       IF p \in Refused THEN Unwind(n, p)
       ELSE /\ opening' = [opening EXCEPT ![n] = 0]
            /\ mapped' = [mapped EXCEPT ![n] = @ \cup {p}]
            /\ UNCHANGED <<life, paths, m_plugins, made>>

\* One call of initialize(): insert(), registrar::add(), or an error.
Initialize(n) ==
  /\ opening[n] >= 0
  /\ \E p \in {Head(paths[n])} :
       /\ opening[n] < Len(Calls[p])
       /\ \E s \in {Calls[p][opening[n] + 1]} :
            IF Throws(n, s)
            THEN /\ Unwind(n, p)
                 /\ failed' = [failed EXCEPT ![n] = {p}]
                 /\ UNCHANGED <<m_categories, mapping>>
            ELSE /\ opening' = [opening EXCEPT ![n] = @ + 1]
                 /\ m_categories' = IF s.kind = "component" THEN [m_categories EXCEPT ![n] = InsertFactory(@, s.name, p)] ELSE m_categories
                 /\ mapping' = IF s.kind = "category" THEN [mapping EXCEPT ![n] = Add(n, s.name, s.id, p)] ELSE mapping
                 /\ UNCHANGED <<life, paths, m_plugins, mapped, made, failed>>

\* The end of open().
Keep(n) ==
  /\ opening[n] >= 0 /\ opening[n] = Len(Calls[Head(paths[n])])
  /\ m_plugins' = [m_plugins EXCEPT ![n] = Append(@, Head(paths[n]))]
  /\ paths' = [paths EXCEPT ![n] = Tail(@)]
  /\ opening' = [opening EXCEPT ![n] = -1]
  /\ UNCHANGED <<life, m_categories, mapping, mapped, made, failed>>

Loaded(n) ==
  /\ life[n] = "loading" /\ opening[n] = -1 /\ paths[n] = <<>>
  /\ life' = [life EXCEPT ![n] = "running"]
  /\ UNCHANGED <<paths, opening, m_plugins, m_categories, mapping, mapped, made, failed>>

\* get(): a component is made by its factory.
Create(n, c) ==
  /\ life[n] = "running" /\ c \in DOMAIN m_categories[n]
  /\ made' = [made EXCEPT ![n] = @ \cup {m_categories[n][c]}]
  /\ UNCHANGED <<repositoryVars, mapping, mapped, failed>>

\* The context is destroyed: services, which are declared behind the
\* repository, first.
DestroyContext(n) ==
  /\ life[n] = "running"
  /\ made' = [made EXCEPT ![n] = {}]
  /\ life' = [life EXCEPT ![n] = "released"]
  /\ UNCHANGED <<paths, opening, m_plugins, m_categories, mapping, mapped, failed>>

\* Mutant: the members of the repository are declared the other way round.
DestroyHandlesFirst(n) ==
  \/ /\ life[n] = "released"
     /\ life' = [life EXCEPT ![n] = "unloading"]
     /\ mapped' = [mapped EXCEPT ![n] = {Core}] /\ m_plugins' = [m_plugins EXCEPT ![n] = <<>>]
     /\ UNCHANGED m_categories
  \/ /\ life[n] = "unloading"
     /\ life' = [life EXCEPT ![n] = "down"]
     /\ m_categories' = [m_categories EXCEPT ![n] = <<>>]
     /\ UNCHANGED <<m_plugins, mapped>>

\* Members are destroyed in the reverse order of their declaration:
\* m_categories, then the handles of m_plugins one after the other.
DestroyMembers(n) ==
  \/ /\ life[n] = "released"
     /\ life' = [life EXCEPT ![n] = "unloading"]
     /\ m_categories' = [m_categories EXCEPT ![n] = <<>>]
     /\ UNCHANGED <<m_plugins, mapped>>
  \/ /\ life[n] = "unloading" /\ m_plugins[n] # <<>>
     /\ mapped' = [mapped EXCEPT ![n] = @ \ {Head(m_plugins[n])}]
     /\ m_plugins' = [m_plugins EXCEPT ![n] = Tail(@)]
     /\ UNCHANGED <<life, m_categories>>
  \/ /\ life[n] = "unloading" /\ m_plugins[n] = <<>>
     /\ life' = [life EXCEPT ![n] = "down"]
     /\ UNCHANGED <<m_categories, m_plugins, mapped>>

DestroyRepository(n) == DestroyMembers(n) /\ UNCHANGED <<paths, opening, mapping, made, failed>>

PluginsNext ==
  \E n \in DOMAIN life :
    \/ Open(n) \/ Initialize(n) \/ Keep(n) \/ Loaded(n) \/ DestroyContext(n) \/ DestroyRepository(n)
    \/ \E c \in DOMAIN m_categories[n] : Create(n, c)

PluginsSpec == PluginsInit(Nodes) /\ [][PluginsNext]_pluginVars

-----------------------------------------------------------------------------
(* The code of every factory and of every component is in memory for as    *)
(* long as there is the object, and that of every category for as long as  *)
(* the node runs.  There is one way out of this: initialize() throws after *)
(* it has registered something, open() unloads the plugin at once, and the *)
(* repository still has its factories to destroy.                          *)
CodeLoaded ==
  \A n \in DOMAIN life :
    /\ {m_categories[n][c] : c \in DOMAIN m_categories[n]} \cup made[n] \subseteq mapped[n] \cup failed[n]
    /\ life[n] \in {"loading", "running"} => {r.owner : r \in Range(mapping[n])} \subseteq mapped[n]

\* type_traits<error_code>: the category of a code of n that m unpacks.
Unpacked(n, m, c) == MapId(m, MapCategory(n, c))

(* An error code that is packed by one node is unpacked by another one as  *)
(* a code of the same category, or of the unknown one, whatever plugins    *)
(* each of them has and however far it has come in loading them.           *)
CodesAgree ==
  \A n, m \in DOMAIN life, c \in Categories : Unpacked(n, m, c) \in {c, UnknownCategory}
=============================================================================
