------------------------------- MODULE Config -------------------------------
(***************************************************************************)
(* The configuration: what is made of the document that was read, section  *)
(* by section, and the port mapper's queue that is filled from it.  The    *)
(* document is a value of dynamic_t whose keys are names; the parser of    *)
(* JSON is external, and so is the file system.                            *)
(***************************************************************************)
EXTENDS Dynamic

CONSTANTS
  PortBits,       \* width of port_t
  Directories     \* strings that name existing directories

VARIABLE
  document        \* what was read

Version == 4
EmptyObject == <<"object", <<>>>>
DefaultPlugins == <<"string", "/usr/lib/cocaine">>
DefaultRuntime == <<"string", "/var/run/cocaine">>
Severities == {"debug", "info", "warning", "error"}

RECURSIVE FromRapid(_)
\* dynamic_from_rapid(): a number is unsigned if it can be, and the last of
\* members with one name wins.
FromRapid(v) ==
  CASE v[1] = "array" -> <<"array", [i \in DOMAIN v[2] |-> FromRapid(v[2][i])]>>
    [] v[1] = "object" ->
         <<"object", [n \in {v[2][i][1] : i \in DOMAIN v[2]} |->
                        FromRapid(v[2][Max({i \in DOMAIN v[2] : v[2][i][1] = n})][2])]>>
    [] v[1] = "number" -> <<IF v[2] >= 0 THEN "uint" ELSE "int", v[2]>>
    [] OTHER -> v

\* object_t::at() with a default.
Field(object, key, default) == IF key \in DOMAIN object THEN object[key] ELSE default

\* The result of one step is handed to the next, unless the step throws.
Then(r, Step(_)) == IF r = Thrown THEN Thrown ELSE Step(r[2])
Check(condition, x) == IF condition THEN Ok(x) ELSE Thrown

-----------------------------------------------------------------------------
Paths(source) ==
  LET plugins == Field(source, "plugins", DefaultPlugins)
      dirs == CASE plugins[1] = "array" -> Join([i \in DOMAIN plugins[2] |-> As(plugins[2][i], "string")])
                [] plugins[1] = "string" -> Ok(<<plugins[2]>>)
                [] OTHER -> Thrown
  IN  Then(dirs, LAMBDA ds :
        Then(As(Field(source, "runtime", DefaultRuntime), "string"), LAMBDA runtime :
          Check(runtime \in Directories, [plugins |-> ds, runtime |-> runtime])))

\* as_uint() is stored in a port_t, whatever its value.
PortOf(d) == d[2] % Power2[PortBits]

ReadPorts(source) ==
  LET pinned == Field(source, "pinned", EmptyObject)
      shared == Field(source, "shared", <<"array", <<<<"uint", 0>>, <<"uint", 0>>>>>>)
  IN  IF pinned[1] # "object" THEN Thrown
      ELSE IF \E n \in DOMAIN pinned[2] : pinned[2][n][1] # "uint" THEN Thrown
      ELSE IF shared[1] # "array" THEN Thrown
      ELSE IF Len(shared[2]) # 2 \/ \E i \in DOMAIN shared[2] : shared[2][i][1] # "uint" THEN Thrown
      ELSE Ok([pinned |-> [n \in DOMAIN pinned[2] |-> PortOf(pinned[2][n])],
               shared |-> [i \in 1 .. 2 |-> PortOf(shared[2][i])]])

\* The number of processors is not zero, and the host has a name.
Network(source) ==
  Then(ReadPorts(source), LAMBDA ports :
    Then(As(Field(source, "endpoint", <<"string", "::">>), "string"), LAMBDA endpoint :
      Then(As(Field(source, "hostname", <<"string", "localhost">>), "string"), LAMBDA hostname :
        Then(As(Field(source, "pool", <<"uint", 2>>), "uint"), LAMBDA pool :
          Check(pool > 0, [ports |-> ports, endpoint |-> endpoint, hostname |-> hostname, pool |-> pool])))))

Logging(source) ==
  IF "loggers" \notin DOMAIN source THEN Thrown
  ELSE Then(As(Field(source, "severity", <<"string", "info">>), "string"), LAMBDA severity :
         Check(severity \in Severities, [loggers |-> source["loggers"], severity |-> severity]))

\* component_group_t and its components.
Group(source) ==
  IF \E n \in DOMAIN source : source[n][1] # "object" THEN Thrown
  ELSE Join([n \in DOMAIN source |->
         Then(As(Field(source[n][2], "type", <<"string", "unspecified">>), "string"), LAMBDA type :
           Ok([type |-> type, args |-> Field(source[n][2], "args", EmptyObject)]))])

Standard == {"services", "storages", "unicorns"}
Reserved == Standard \cup {"paths", "network", "logging", "version"}

\* init_components_groups().
ComponentGroups(root) ==
  Join([n \in Standard \cup (DOMAIN root \ Reserved) |->
    Then(As(Field(root, n, EmptyObject), "object"), LAMBDA source : Group(source))])

Section(root, name, Make(_)) == Then(As(Field(root, name, EmptyObject), "object"), Make)

\* read_source_file() and the members of config, in order.
MakeConfig(d) ==
  Then(As(d, "object"), LAMBDA root :
    Then(Convert(Field(root, "version", <<"int", 0>>), Unsigned(Bits)), LAMBDA version :
      IF version # Version THEN Thrown
      ELSE Then(Section(root, "paths", Paths), LAMBDA path :
        Then(Section(root, "network", Network), LAMBDA network :
          Then(Section(root, "logging", Logging), LAMBDA logging :
            Then(ComponentGroups(root), LAMBDA groups :
              Ok([path |-> path, network |-> network, logging |-> logging, groups |-> groups])))))))

\* component_group().
ComponentGroup(config, name) == IF name \in DOMAIN config.groups THEN Ok(config.groups[name]) ELSE Thrown

\* Mutant: a range of one port is taken for one.
SeedStrict(shared) == IF shared[2] < shared[1] \/ shared = <<0, 0>> THEN {0} ELSE shared[1] .. shared[2] - 1

\* The queue of the port mapper, as a set; 0 is any port of the system.
Seed(shared) == IF shared[2] <= shared[1] THEN {0} ELSE shared[1] .. shared[2] - 1

-----------------------------------------------------------------------------
\* A document with some sections, and with one value or none for each.
ConfigInit(sections) ==
  \E members \in FoldSet(LAMBDA n, ms : ms \cup {Append(m, <<n, v>>) : m \in ms, v \in sections[n]}, {<<>>}, DOMAIN sections) :
    document = FromRapid(<<"object", members>>)

-----------------------------------------------------------------------------
\* A section that its own constructor takes.
Taken(n, d) ==
  CASE n = "version" -> Convert(d, Unsigned(Bits)) = Ok(Version)
    [] n = "paths" -> Then(As(d, "object"), Paths) # Thrown
    [] n = "network" -> Then(As(d, "object"), Network) # Thrown
    [] n = "logging" -> Then(As(d, "object"), Logging) # Thrown
    [] OTHER -> Then(As(d, "object"), Group) # Thrown

\* A document is refused for nothing but a section that its own constructor
\* refuses, or for one of the two it must have.  When it is accepted, every
\* section of it that is none of the core's own is a group of components,
\* and the three groups that services(), storages() and unicorns() take for
\* granted are there although the document may have none of them.
GroupsServed ==
  document # Null => \E root \in {document[2]}, config \in {MakeConfig(document)} :
    /\ (config # Thrown) <=>
         {"version", "logging"} \subseteq DOMAIN root /\ \A n \in DOMAIN root : Taken(n, root[n])
    /\ config # Thrown =>
         \A n \in DOMAIN root \cup Standard :
           (ComponentGroup(config[2], n) # Thrown) <=> n \notin {"version", "paths", "network", "logging"}

\* The ports that services get are those of the document, as far as these
\* are ports at all: the shared ones lie in the range that is given, there is
\* always one to begin with, and a range that holds none means any port.
PortsAsConfigured ==
  document # Null => \E config \in {MakeConfig(document)} :
    config # Thrown =>
      LET network == Field(document[2], "network", EmptyObject)[2]
          seed == Seed(config[2].network.ports.shared)
          pinned == Field(network, "pinned", EmptyObject)[2]
      IN  /\ seed # {}
          /\ "shared" \in DOMAIN network =>
               \E low \in {network["shared"][2][1][2]}, high \in {network["shared"][2][2][2]} :
                 low < high /\ high < Power2[PortBits] => seed \subseteq low .. high /\ Cardinality(seed) = high - low
          /\ \A n \in DOMAIN pinned :
               pinned[n][2] < Power2[PortBits] => config[2].network.ports.pinned[n] = pinned[n][2]

\* A node runs with what its configuration says: the components and the ports.
ConfigFollowed == GroupsServed /\ PortsAsConfigured
=============================================================================
