------------------------------ MODULE Registries ------------------------------
(***************************************************************************)
(* The registries that the static initialisers of datamodel libraries      *)
(* fill: podio::CollectionBufferFactory (how to make read buffers for a    *)
(* stored type and version), podio::SchemaEvolution (how to bring them to  *)
(* the current version) and podio::DatamodelRegistry (definitions,         *)
(* versions and relation names).  Libraries come in any order, one at a    *)
(* time, before anything is read: SchemaEvolution.h:25 assumes that this   *)
(* "happens early on in the startup of any application".  A library that   *)
(* ROOT finds and loads when it looks for a class is one of these.         *)
(***************************************************************************)
EXTENDS Naturals, SequencesExt

CONSTANTS
  Libraries,   \* library -> [model, types, renamed, schema, version, evolves]; renamed is
               \* old type -> [to, from]: the type it is now, and the last version with the old name
  Relations    \* type -> the names of its relations, in the order of the datamodel

\* Old datamodels are compared with the current one, so that a type was renamed to
\* one that there is.
ASSUME RegistriesAssumption ==
  \A l \in DOMAIN Libraries :
    /\ Libraries[l].schema \in Nat \ {0}
    /\ \A t \in DOMAIN Libraries[l].renamed :
         /\ Libraries[l].renamed[t].from \in 1 .. Libraries[l].schema - 1
         /\ Libraries[l].renamed[t].to \in Libraries[l].types
         /\ \A m \in DOMAIN Libraries :
              /\ t \notin Libraries[m].types
              /\ Libraries[l].renamed[t].to \notin DOMAIN Libraries[m].renamed

\* A process has one class for a type, which knows its schema version, and what
\* a library registers is a function.
None == "none"           \* std::nullopt, an empty std::function
GeneratedTypes(lib) == lib.types \cup DOMAIN lib.renamed
RegisteredTypes(l) == GeneratedTypes(Libraries[l]) \cup {e.type : e \in Libraries[l].evolves}

ASSUME TypesAssumption ==
  /\ None \notin DOMAIN Libraries
  /\ \A l \in DOMAIN Libraries : None \notin Libraries[l].types
  /\ \A l, m \in DOMAIN Libraries :
       RegisteredTypes(l) \cap RegisteredTypes(m) # {} => Libraries[l].schema = Libraries[m].schema

VARIABLES
  loaded,      \* the libraries whose static initialisers have run
  creators,    \* CollectionBufferFactory::m_funcMap: per version, what the function makes
  evolution,   \* SchemaEvolution::m_versionMapIndices with m_evolutionFuncs
  definitions, \* DatamodelRegistry::m_definitions, each with the library it is from
  relations,   \* DatamodelRegistry::m_relations
  versions,    \* DatamodelRegistry::m_datamodelVersions
  indices      \* what registerDatamodel returned to each library

regVars == <<loaded, creators, evolution, definitions, relations, versions, indices>>

NoOp == "noOp"           \* SchemaEvolution::noOpSchemaEvolution

At(f, x, default) == IF x \in DOMAIN f THEN f[x] ELSE default
Put(f, x, v) == [y \in DOMAIN f \cup {x} |-> IF y = x THEN v ELSE f[y]]
Emplace(f, x, v) == IF x \in DOMAIN f THEN f ELSE Put(f, x, v)
Resized(s, n, v) == s \o [i \in 1 .. n - Len(s) |-> v]

\* CollectionBufferFactory::registerCreationFunc for the versions of a type:
\* those that are not there yet get this function, one that is there is replaced.
RegisterCreationFunc(versionMap, version, func) ==
  IF Len(versionMap) < version THEN Resized(versionMap, version, func)
  ELSE [versionMap EXCEPT ![version] = func]

\* create<Type>Buffers makes buffers of the current version of the type; the
\* function of an old name asks the factory for the first version of the new one.
BuffersOf(type, schema) == [type |-> type, schema |-> schema]
FirstOf(type) == BuffersOf(type, 0)
NoBuffers == BuffersOf(None, 0)

\* CollectionBufferFactory::createBuffers, NoBuffers for std::nullopt.
CreateBuffers(type, version) ==
  LET func(t, v) == IF v \in DOMAIN At(creators, t, <<>>) THEN creators[t][v] ELSE NoBuffers
      made == func(type, version)
  IN  IF made # NoBuffers /\ made = FirstOf(made.type) THEN func(made.type, 1) ELSE made

\* SchemaEvolution::registerEvolutionFunc for a type that is new, or is there with
\* the current version of its first registration: one call for each of some
\* versions.  The priority has no effect.
NewIndex(current) == [current |-> current, funcs |-> <<>>]
RegisterEvolutionFunc(index, fromVersions, current, func, priority) ==
  LET versionMap == Resized(index.funcs, current, None)
  IN  [index EXCEPT !.funcs =
         [v \in DOMAIN versionMap |-> IF v \in fromVersions THEN func ELSE versionMap[v]]]

\* SchemaEvolution::evolveBuffers: the function that is applied; a type or a
\* version that is not known leaves the buffers alone.
EvolveBuffers(fromVersion, type) ==
  IF type \notin DOMAIN evolution THEN NoOp
  ELSE IF fromVersion = evolution[type].current THEN NoOp
  ELSE IF fromVersion < Len(evolution[type].funcs) THEN evolution[type].funcs[fromVersion]
  ELSE NoOp

\* Faulty variant: the version is that of the library that came last.
RegisterVersionLast(lib) == Put(versions, lib.model, lib.version)

\* DatamodelRegistry::registerDatamodel with the relation names: a name that is
\* there already keeps its version, its definition and its relations.
RegisterVersion(lib) == Emplace(versions, lib.model, lib.version)

RegisterDatamodel(l) ==
  LET lib == Libraries[l]
      known == {i \in DOMAIN definitions : definitions[i].name = lib.model}
  IN  /\ versions' = RegisterVersion(lib)
      /\ \/ /\ known = {}
            /\ definitions' = Append(definitions, [name |-> lib.model, from |-> l])
            /\ relations' = [t \in DOMAIN relations \cup lib.types |->
                               IF t \in DOMAIN relations THEN relations[t] ELSE Relations[t]]
            /\ indices' = Put(indices, l, Len(definitions) + 1)
         \/ \E i \in known :
              /\ \A j \in known : i <= j
              /\ indices' = Put(indices, l, i)
              /\ UNCHANGED <<definitions, relations>>

\* DatamodelRegistry::getDatamodelName and getDatamodelDefinition by index,
\* getDatamodelVersion, and getRelationNames.
GetDatamodelName(i) == IF i \in DOMAIN definitions THEN definitions[i].name ELSE None
GetDatamodelDefinition(name) == definitions[SelectInSeq(definitions, LAMBDA d : d.name = name)]
GetDatamodelVersion(name) == At(versions, name, None)
GetRelationNames(type) == At(relations, type, <<>>)

\* Faulty variant: the first version gets no function.
AutoGeneratedFromTwo(index, schema) ==
  RegisterEvolutionFunc(index, 2 .. schema, schema, NoOp, "AutoGenerated")

\* register<Type>Collection, run for every type when a datamodel library is
\* loaded: an evolution function that does nothing for each version up to the
\* current one, next to the creation function of the current version.
AutoGenerated(index, schema) ==
  RegisterEvolutionFunc(index, 1 .. schema, schema, NoOp, "AutoGenerated")

\* A type that was renamed since is registered with its old name, too, and again
\* for the last version that had it.
RegisterCreationFuncs(versionMap, lib, type) ==
  LET own == RegisterCreationFunc(versionMap, lib.schema, BuffersOf(type, lib.schema))
  IN  IF type \notin DOMAIN lib.renamed THEN own
      ELSE RegisterCreationFunc(own, lib.renamed[type].from, FirstOf(lib.renamed[type].to))

RegisterCollections(lib) ==
  /\ creators' = [t \in DOMAIN creators \cup GeneratedTypes(lib) |->
       IF t \in GeneratedTypes(lib) THEN RegisterCreationFuncs(At(creators, t, <<>>), lib, t)
       ELSE creators[t]]
  /\ evolution' = [t \in DOMAIN evolution \cup GeneratedTypes(lib) |->
       IF t \in GeneratedTypes(lib) THEN AutoGenerated(At(evolution, t, NewIndex(lib.schema)), lib.schema)
       ELSE evolution[t]]

\* The classes of the libraries, also those with an old name.
Classes == UNION {GeneratedTypes(Libraries[l]) : l \in loaded}
-----------------------------------------------------------------------------
RegInit ==
  /\ loaded = {}
  /\ creators = <<>>
  /\ evolution = <<>>
  /\ definitions = <<>>
  /\ relations = <<>>
  /\ versions = <<>>
  /\ indices = <<>>

\* The static initialisers of a datamodel library.
LoadDatamodel(l) ==
  /\ l \notin loaded
  /\ Libraries[l].model # None
  /\ loaded' = loaded \cup {l}
  /\ RegisterCollections(Libraries[l])
  /\ RegisterDatamodel(l)

\* The static initialisers of a library with evolution functions of a user.
LoadEvolutions(l) ==
  /\ l \notin loaded
  /\ Libraries[l].model = None
  /\ loaded' = loaded \cup {l}
  /\ LET lib == Libraries[l]
         froms(t) == {e.from : e \in {x \in lib.evolves : x.type = t}}
     IN  evolution' = [t \in DOMAIN evolution \cup {e.type : e \in lib.evolves} |->
           IF froms(t) = {} THEN evolution[t]
           ELSE RegisterEvolutionFunc(At(evolution, t, NewIndex(lib.schema)), froms(t), lib.schema, l, "UserDefined")]
  /\ UNCHANGED <<creators, definitions, relations, versions, indices>>

LoadLibrary == \E l \in DOMAIN Libraries : LoadDatamodel(l) \/ LoadEvolutions(l)
-----------------------------------------------------------------------------
\* Buffers that can be made for a stored type and version, be it under its old
\* name, can be evolved to the current one, whatever order the libraries came in:
\* there is a function to call for the type of the buffers, and the current
\* version that the evolution goes by is that of the buffers that the factory
\* makes (CollectionBufferFactory.cc:15, SchemaEvolution.cc:17).
ReadableEvolves ==
  \A t \in DOMAIN creators : \A v \in DOMAIN creators[t] :
    LET made == CreateBuffers(t, v) IN
    /\ made # NoBuffers
    /\ EvolveBuffers(v, made.type) # None
    /\ made.schema = evolution[made.type].current

\* A function that a user provides for a version is the one that is applied,
\* since it "overrides auto generated functionality" (SchemaEvolution.h:113).
UserFunctionApplied ==
  \A l \in loaded : \A e \in Libraries[l].evolves : EvolveBuffers(e.from, e.type) = l

\* The index that a library holds stays that of its own datamodel, and the
\* version that is written next to the definition is from the library that
\* the definition is from (DatamodelRegistry.cc:18, :37).
DefinitionMatchesVersion ==
  \A l \in DOMAIN indices :
    LET name == GetDatamodelName(indices[l])
    IN  /\ name = Libraries[l].model
        /\ GetDatamodelVersion(name) = Libraries[GetDatamodelDefinition(name).from].version
=============================================================================
