------------------------- MODULE DescriptorRegistry -------------------------
(***************************************************************************)
(* The registry of the code generator (protocgen/descriptor): it is          *)
(* configured, given external HTTP rules, loads the messages of all files    *)
(* and then the services of those to generate, and takes OpenAPI options.   *)
(* A file's path is its place in the sorted order of paths.                 *)
(***************************************************************************)
EXTENDS DescriptorTypes, HttpRule, Scalar, TLC

CONSTANTS
  Input,     \* [calls, files, options, ...]: what a plugin calls the registry with
  Title,     \* [package name -> name in title case, after "ext"]
  Trimmed    \* [selector -> it without spaces around]

\* MaxNesting is enough, and a Go package has one name: protogen refuses others.
ASSUME FilesAssumption ==
  /\ MaxNesting \in Nat
  /\ \A i \in Input :
       /\ i.files \in Seq(ToSet(i.files))
       /\ \A f \in ToSet(i.files) : \A p \in Level(f)[MaxNesting] : p[2].nested = <<>>
       /\ \A f, g \in ToSet(i.files) : f.goPath = g.goPath => f.goName = g.goName
       /\ \A f \in ToSet(i.files) : f.services \in Seq(ToSet(f.services))
       /\ \A f \in ToSet(i.files) : \A s \in ToSet(f.services) : s.methods \in Seq(ToSet(s.methods))

VARIABLES
  phase,      \* "configure", "files", "services", "loaded", "failed"
  input,      \* the input
  calls,      \* calls of the configuration not yet made
  settings,   \* what the setters set
  external,   \* [method -> external HTTP rules]
  refused,    \* calls and options that returned an error
  next,       \* the file to load next
  pkgAliases, \* [alias -> Go import path]
  aliasOf,    \* alias of each file loaded, "" for none
  msgs, enums,
  services,   \* [file -> [service -> methods in order]]
  meths,      \* [method -> bindings]
  failure,    \* why load returned an error
  annotations,   \* HTTP annotations the generator has registered
  options     \* OpenAPI options, as <<kind, name>>
configVars   == <<settings, external, pkgAliases>>
loadVars     == <<next, aliasOf, msgs, enums, services, meths, failure>>
registryVars == <<phase, input, calls, refused, configVars, loadVars, annotations, options>>

NoBinding == [nil |-> TRUE]
NoRule    == [verb |-> "none"]

LoadFlags      == {"standalone", "allowDeleteBody", "generateUnboundMethods", "warnOnUnboundMethods"}
MergeFlags     == {"allowMerge", "includePackageInTags"}
FieldFlags     == {"useJSONNamesForFields", "useProto3FieldSemantics"}
CommentFlags   == {"useGoTemplate", "ignoreComments", "removeInternalComments"}
EnumFlags      == {"enumsAsInts", "omitEnumDefaultValue"}
OperationFlags ==
  {"disableDefaultErrors", "simpleOperationIDs", "omitPackageDoc", "proto3OptionalNullable"}
OutputFlags    ==
  {"disableServiceTags", "disableDefaultResponses", "useAllOfForRefs", "allowPatchFeature", "preserveRPCOrder",
   "enableRpcDeprecation", "expandSlashedPathPatterns", "generateXGoType"}
Flags == LoadFlags \cup MergeFlags \cup FieldFlags \cup CommentFlags \cup EnumFlags \cup OperationFlags \cup OutputFlags

DefaultSettings ==
  [f \in Flags |-> FALSE]
  @@ [separator |-> "csv", openAPINamingStrategy |-> "legacy", recursiveDepth |-> 1000, prefix |-> "",
      mergeFileName |-> "", pkgMap |-> <<>>, goTemplateArgs |-> <<>>, visibilityRestrictionSelectors |-> {}]

RegistryInit ==
  /\ phase = "configure" /\ input \in Input /\ calls = input.calls
  /\ settings = DefaultSettings
  /\ external = <<>> /\ refused = {} /\ next = 1 /\ pkgAliases = <<>> /\ aliasOf = <<>>
  /\ msgs = <<>> /\ enums = {} /\ services = <<>> /\ meths = <<>> /\ failure = ""
  /\ annotations = {} /\ options = {}

-----------------------------------------------------------------------------
(* Configuration.                                                          *)

Separators == {"csv", "pipes", "ssv", "tsv"}

\* Setters of one value: flags, names and the depth.
Set(c)          == /\ c.op = "set" /\ settings' = [settings EXCEPT ![c.name] = c.value]
                   /\ UNCHANGED <<external, pkgAliases, refused>>
SetAnySeparator(c) ==
  /\ c.op = "separator" /\ settings' = [settings EXCEPT !.separator = c.name]
  /\ UNCHANGED <<external, pkgAliases, refused>>
SetSeparator(c) == /\ c.op = "separator"
                   /\ IF c.name \in Separators
                      THEN settings' = [settings EXCEPT !.separator = c.name] /\ UNCHANGED refused
                      ELSE refused' = refused \cup {c} /\ UNCHANGED settings
                   /\ UNCHANGED <<external, pkgAliases>>
\* SetUseFQNForOpenAPIName does not look at its argument.
SetUseFQN(c)    == /\ c.op = "fqn" /\ settings' = [settings EXCEPT !.openAPINamingStrategy = "fqn"]
                   /\ UNCHANGED <<external, pkgAliases, refused>>

AddPkgMap(c)    == /\ c.op = "package" /\ settings' = [settings EXCEPT !.pkgMap = (c.file :> c.name) @@ @]
                   /\ UNCHANGED <<external, pkgAliases, refused>>
\* A later call forgets what an earlier one has given; what has no "=" is left
\* out, and the last value of a key counts.
SetGoTemplateArgs(c) ==
  /\ c.op = "template"
  /\ settings' = [settings EXCEPT !.goTemplateArgs =
                    FoldLeft(LAMBDA args, kv : IF Len(kv) = 2 THEN (kv[1] :> kv[2]) @@ args ELSE args, <<>>, c.args)]
  /\ UNCHANGED <<external, pkgAliases, refused>>
SetVisibilityRestrictionSelectors(c) ==
  /\ c.op = "visibility"
  /\ settings' = [settings EXCEPT !.visibilityRestrictionSelectors = {Trimmed[x] : x \in c.selectors}]
  /\ UNCHANGED <<external, pkgAliases, refused>>

\* A map of Go after an assignment.
Updated(f, key, value) == [k \in DOMAIN f \cup {key} |-> IF k = key THEN value ELSE f[k]]

\* ReserveGoPackageAlias: [ok, aliases].
ReserveAnyway(aliases, alias, path) == [ok |-> TRUE, aliases |-> Updated(aliases, alias, path)]
Reserve(aliases, alias, path) ==
  IF alias \in DOMAIN aliases THEN [ok |-> aliases[alias] = path, aliases |-> aliases]
  ELSE [ok |-> TRUE, aliases |-> Updated(aliases, alias, path)]

ReserveGoPackageAlias(c) ==
  /\ c.op = "reserve"
  /\ LET r == Reserve(pkgAliases, c.alias, c.path)
     IN  pkgAliases' = r.aliases /\ refused' = IF r.ok THEN refused ELSE refused \cup {c}
  /\ UNCHANGED <<settings, external>>

RulesIn(known, m) == IF m \in DOMAIN known THEN known[m] ELSE <<>>
RulesFor(m)       == RulesIn(external, m)

AddExternalHTTPRule(known, r) == Updated(known, r.selector, Append(RulesIn(known, r.selector), r.rule))

HasWildcard(r) == ToSet(r.selector) \cap {"*", ",", " "} # {}

\* registerHTTPRulesFromGrpcAPIService: rules before a selector with a
\* wildcard stay.
AddRules(rules) ==
  LET Add(known, i) ==
        IF \E j \in 1 .. i : HasWildcard(rules[j]) THEN known ELSE AddExternalHTTPRule(known, rules[i])
      added[i \in 0 .. Len(rules)] == IF i = 0 THEN external ELSE Add(added[i - 1], i)
  IN  added[Len(rules)]

LoadRules(c) ==
  /\ c.op = "yaml" /\ external' = AddRules(c.rules)
  /\ refused' = IF \E i \in DOMAIN c.rules : HasWildcard(c.rules[i]) THEN refused \cup {c} ELSE refused
  /\ UNCHANGED <<settings, pkgAliases>>

Configure ==
  /\ phase = "configure"
  /\ \E c \in calls :
       /\ calls' = calls \ {c}
       /\ \/ Set(c) \/ SetSeparator(c) \/ SetUseFQN(c) \/ AddPkgMap(c) \/ SetGoTemplateArgs(c)
          \/ SetVisibilityRestrictionSelectors(c) \/ ReserveGoPackageAlias(c) \/ LoadRules(c)
  /\ UNCHANGED <<phase, input, loadVars, annotations, options>>

Load ==
  /\ phase = "configure" /\ calls = {} /\ phase' = "files"
  /\ UNCHANGED <<input, calls, refused, configVars, loadVars, annotations, options>>

-----------------------------------------------------------------------------
(* loadFile.                                                               *)

Files == input.files

Suffixed(name, i) == name \o "_" \o ToString(i)

\* The alias of a file and the aliases taken after it.
AliasFor(f) ==
  LET own    == Reserve(pkgAliases, f.goName, f.goPath)
      free   == {i \in 0 .. Cardinality(DOMAIN pkgAliases) :
                   Reserve(pkgAliases, Suffixed(f.goName, i), f.goPath).ok}
      first  == Suffixed(f.goName, CHOOSE i \in free : \A j \in free : i <= j)
  IN  IF own.ok THEN [alias   |-> IF settings.standalone THEN Title[f.goName] ELSE "",
                      aliases |-> own.aliases]
      ELSE [alias |-> first, aliases |-> Reserve(pkgAliases, first, f.goPath).aliases]

LoadFile ==
  /\ phase = "files" /\ next <= Len(Files)
  /\ LET f     == Files[next]
         a     == AliasFor(f)
         found == Registered(f)
     IN  /\ pkgAliases' = a.aliases /\ aliasOf' = Append(aliasOf, a.alias)
         /\ msgs' = [n \in DOMAIN msgs \cup {m.fqn : m \in found} |->
                      IF n \in {m.fqn : m \in found} THEN CHOOSE m \in found : m.fqn = n ELSE msgs[n]]
         /\ enums' = enums \cup RegisteredEnums(f)
  /\ next' = next + 1
  /\ UNCHANGED <<phase, input, calls, refused, settings, external, services, meths, failure,
                 annotations, options>>

FilesLoaded ==
  /\ phase = "files" /\ next > Len(Files)
  /\ phase' = "services" /\ next' = 1
  /\ UNCHANGED <<input, calls, refused, configVars, aliasOf, msgs, enums, services, meths, failure,
                 annotations, options>>

-----------------------------------------------------------------------------
(* loadServices.                                                           *)

LookupEnum(location, name) == LookupName(enums, location, name)

\* The words of a field path, which has dots between them.
Components(name) == [i \in 1 .. (Len(name) + 1) \div 2 |-> name[2 * i - 1]]

\* newParam, after resolveFieldPath.
NewParam(request, name) ==
  LET r == ResolveFieldPath(msgs, request, Components(name), "param")
  IN  IF r.err = "" /\ IsAggregate(Target(r.path)) /\ ~IsWellKnownType(Target(r.path).type)
      THEN [r EXCEPT !.err = "message as parameter"] ELSE r

\* newBody and newResponse: "" and "*" name no field.
NewBody(msg, names) ==
  IF names \in {<<>>, <<"*">>} THEN [err |-> "", path |-> <<>>]
  ELSE ResolveFieldPath(msgs, msg, names, "body")

FirstError(rs) ==
  LET bad == {i \in DOMAIN rs : rs[i].err # ""}
  IN  IF bad = {} THEN "" ELSE rs[CHOOSE i \in bad : \A j \in bad : i <= j].err

Unbound(e) == [err |-> e, binding |-> NoBinding]

\* The fields of a rule resolved: parameters, body and response.
Bound(rule, idx, params, body, answer) ==
  LET err == FirstError(params \o <<body, answer>>)
  IN  IF err # "" THEN Unbound(err)
      ELSE [err |-> "", binding |->
              [nil |-> FALSE, index |-> idx, rule |-> rule,
               params |-> [i \in DOMAIN params |-> params[i].path],
               hasBody |-> rule.body # <<>>, body |-> body.path, response |-> answer.path]]

BoundTo(m, request, response, rule, idx, fields) ==
  IF m.streaming /\ fields # <<>> THEN Unbound("streaming")
  ELSE Bound(rule, idx, [i \in DOMAIN fields |-> NewParam(request, fields[i])],
             NewBody(request, rule.body), NewBody(response, rule.response))

BoundAt(m, request, response, rule, idx, tmpl) ==
  IF tmpl.ok THEN BoundTo(m, request, response, rule, idx, Compile(tmpl).fields) ELSE Unbound("template")

BodyRefused(rule) ==
  rule.body # <<>> /\ rule.verb \in (IF settings.allowDeleteBody THEN {"GET"} ELSE {"GET", "DELETE"})

\* newBinding: [err, binding]; a rule without a pattern has no binding.
NewBinding(m, request, response, rule, idx) ==
  IF rule.verb = "none" THEN Unbound("")
  ELSE IF BodyRefused(rule) THEN Unbound("body")
  ELSE BoundAt(m, request, response, rule, idx, Parse(rule.path))

\* applyOpts: a main rule, which is in place 1, is skipped without a binding, an
\* additional one is not.
AddBinding(acc, i, b) ==
  IF b.err # "" THEN [acc EXCEPT !.err = b.err]
  ELSE IF i = 1 /\ b.binding.nil THEN acc
  ELSE [acc EXCEPT !.bindings = Append(@, b.binding)]

\* A rule and its additional ones, which have none of their own.
AddRule(m, request, response, all, a, i) ==
  IF a.err # "" THEN a
  ELSE IF i > 1 /\ all[i].additional # <<>> THEN [a EXCEPT !.err = "nested additional"]
  ELSE AddBinding(a, i, NewBinding(m, request, response, all[i], Len(a.bindings)))
ApplyRule(m, request, response, acc, rule) ==
  LET all == <<rule>> \o rule.additional
      applied[i \in 0 .. Len(all)] ==
        IF i = 0 THEN acc ELSE AddRule(m, request, response, all, applied[i - 1], i)
  IN  applied[Len(all)]

\* defaultAPIOptions
DefaultPath(fqmn) ==
  LET Dotted(s) == FoldLeft(LAMBDA acc, x : acc \o "." \o x, Head(s), Tail(s))
  IN  <<"/", Dotted(Front(fqmn)), "/", Last(fqmn)>>
DefaultRule(fqmn) ==
  [verb |-> "POST", path |-> DefaultPath(fqmn), body |-> <<"*">>, response |-> <<>>, additional |-> <<>>]

AnnotationOnly(fqmn, m) == IF m.rule = NoRule THEN RulesFor(fqmn) ELSE <<m.rule>>

\* External rules come first, then the annotation; the default is for none.
RulesOf(fqmn, m) ==
  LET own == IF m.rule = NoRule THEN RulesFor(fqmn) ELSE Append(RulesFor(fqmn), m.rule)
  IN  IF own = <<>> /\ settings.generateUnboundMethods THEN <<DefaultRule(fqmn)>> ELSE own

\* applyOpts, for the rules in order.
ApplyRules(m, request, response, rules) ==
  LET applied[i \in 0 .. Len(rules)] ==
        IF i = 0 THEN [err |-> "", bindings |-> <<>>]
        ELSE ApplyRule(m, request, response, applied[i - 1], rules[i])
  IN  applied[Len(rules)]

\* newMethod
NewMethod(f, fqmn, m) ==
  LET request  == LookupName(DOMAIN msgs, f.pkg, m.input)
      response == LookupName(DOMAIN msgs, f.pkg, m.output)
      rules    == RulesOf(fqmn, m)
  IN  IF request = NotFound \/ response = NotFound THEN [err |-> "missing", bindings |-> <<>>]
      ELSE ApplyRules(m, request, response, rules)

\* Methods of a file in order, as <<method's name, method>>.
MethodsOf(f) ==
  FlattenSeq([s \in DOMAIN f.services |->
    [i \in DOMAIN f.services[s].methods |->
       <<FQMN(f.pkg, <<f.services[s].name>>, f.services[s].methods[i].name),
         f.services[s].methods[i]>>]])

IsRule(r) ==
  /\ r.additional \in Seq(ToSet(r.additional))
  /\ \A x \in {r} \cup ToSet(r.additional) :
       x.path \in Seq(STRING) /\ x.body \in Seq(STRING) /\ x.response \in Seq(STRING)

\* protoc refuses two methods of one name.
ASSUME MethodsAssumption ==
  \A i \in Input :
    /\ \A c \in i.calls : c.op = "yaml" =>
         c.rules \in Seq(ToSet(c.rules)) /\ \A r \in ToSet(c.rules) : IsRule(r.rule)
    /\ \A f \in ToSet(i.files) : \A m \in ToSet(MethodsOf(f)) : m[2].rule # NoRule => IsRule(m[2].rule)
    /\ \A f, g \in ToSet(i.files) : \A m \in ToSet(MethodsOf(f)), n \in ToSet(MethodsOf(g)) :
         m[1] = n[1] => m = n

\* Names are texts, and so is the path of a default rule; fields are in order.
IsTypeName(t) == t.abs \in BOOLEAN /\ t.parts \in Seq(STRING)
IsDeclaration(m) ==
  /\ m.name \in STRING /\ ToSet(m.enums) \subseteq STRING
  /\ m.fields \in Seq(ToSet(m.fields)) /\ \A x \in ToSet(m.fields) : IsTypeName(x.type)
ASSUME NamesAssumption ==
  \A i \in Input : \A f \in ToSet(i.files) :
    /\ f.pkg \in Seq(STRING) /\ ToSet(f.enums) \subseteq STRING
    /\ \A d \in 0 .. MaxNesting : \A p \in Level(f)[d] : IsDeclaration(p[2])
    /\ \A m \in ToSet(MethodsOf(f)) :
         IsTypeName(m[2].input) /\ IsTypeName(m[2].output) /\ DefaultPath(m[1]) \in Seq(STRING)

AddMethod(acc, name, new) ==
  IF new.err # "" THEN [acc EXCEPT !.err = new.err]
  ELSE [acc EXCEPT !.meths = Updated(@, name, new.bindings)]

\* Methods before the one that fails stay registered.
LoadMethod(f, acc, m) == IF acc.err # "" THEN acc ELSE AddMethod(acc, m[1], NewMethod(f, m[1], m[2]))
LoadMethods(f) ==
  LET all == MethodsOf(f)
      loaded[i \in 0 .. Len(all)] ==
        IF i = 0 THEN [err |-> "", meths |-> meths] ELSE LoadMethod(f, loaded[i - 1], all[i])
  IN  loaded[Len(all)]

ServicesOf(f) == {s \in ToSet(f.services) : s.methods # <<>>}

LoadServices ==
  /\ phase = "services" /\ next <= Len(Files)
  /\ LET f == Files[next]
     IN  \/ /\ ~f.generate /\ next' = next + 1
            /\ UNCHANGED <<phase, services, meths, failure>>
         \/ /\ f.generate
            /\ \E r \in {LoadMethods(f)} :
                 /\ meths' = r.meths
                 /\ IF r.err # "" THEN phase' = "failed" /\ failure' = r.err /\ UNCHANGED <<next, services>>
                    ELSE /\ services' = (next :> {FQMN(f.pkg, <<>>, s.name) : s \in ServicesOf(f)}) @@ services
                         /\ next' = next + 1 /\ UNCHANGED <<phase, failure>>
  /\ UNCHANGED <<input, calls, refused, configVars, aliasOf, msgs, enums, annotations, options>>

ServicesLoaded ==
  /\ phase = "services" /\ next > Len(Files) /\ phase' = "loaded" /\ next' = 1
  /\ UNCHANGED <<input, calls, refused, configVars, aliasOf, msgs, enums, services, meths, failure,
                 annotations, options>>

-----------------------------------------------------------------------------
(* After the load.                                                         *)

\* The generator walks over the bindings in order.
AllBindings ==
  LET generated == SelectSeq(Files, LAMBDA f : f.generate)
      methods   == FlattenSeq([i \in DOMAIN generated |-> MethodsOf(generated[i])])
  IN  FlattenSeq([i \in DOMAIN methods |->
        [k \in DOMAIN meths[methods[i][1]] |-> <<methods[i][1], meths[methods[i][1]][k]>>]])

\* A method and a template twice in one service are refused.
CheckDuplicateAnnotation ==
  /\ phase = "loaded" /\ next <= Len(AllBindings)
  /\ LET m  == AllBindings[next][1]
         b  == AllBindings[next][2]
         id == [op |-> "annotation", verb |-> b.rule.verb, path |-> b.rule.path, service |-> Front(m)]
     IN  IF b.nil THEN UNCHANGED <<annotations, refused>>
         ELSE /\ annotations' = annotations \cup {id}
              /\ refused' = IF id \in annotations THEN refused \cup {id} ELSE refused
  /\ next' = next + 1
  /\ UNCHANGED <<phase, input, calls, configVars, aliasOf, msgs, enums, services, meths, failure, options>>

\* UnboundExternalHTTPRules: methods of all files, generated or not.
UnboundExternalHTTPRules ==
  DOMAIN external \ UNION {{m[1] : m \in ToSet(MethodsOf(f))} : f \in ToSet(Files)}

FieldNames == UNION {{Append(m, f.name) : f \in ToSet(msgs[m].fields)} : m \in DOMAIN msgs}

LoadedServices == UNION {services[i] : i \in DOMAIN services}

Known(kind, name) ==
  CASE kind = "file"    -> name \in DOMAIN aliasOf
    [] kind = "method"  -> name \in DOMAIN meths /\ Front(name) \in LoadedServices
    [] kind = "message" -> name \in DOMAIN msgs
    [] kind = "service" -> name \in LoadedServices
    [] kind = "field"   -> name \in FieldNames

OptionKinds == <<"file", "method", "message", "service", "field">>

\* RegisterOpenAPIOptions, kind by kind: the options before the first unknown
\* name stay.
RegisterOpenAPIOptions ==
  /\ phase = "loaded" /\ options = {} /\ input.options # <<>> /\ [op |-> "options"] \notin refused
  /\ LET asked == FlattenSeq([k \in DOMAIN OptionKinds |->
                    SelectSeq(input.options, LAMBDA o : o[1] = OptionKinds[k])])
         good  == {i \in DOMAIN asked : \A j \in 1 .. i : Known(asked[j][1], asked[j][2])}
     IN  /\ options' = {asked[i] : i \in good}
         /\ refused' = IF good = DOMAIN asked THEN refused ELSE refused \cup {[op |-> "options"]}
  /\ UNCHANGED <<phase, input, calls, configVars, loadVars, annotations>>

RegistryNext ==
  \/ Configure \/ Load \/ LoadFile \/ FilesLoaded \/ LoadServices \/ ServicesLoaded
  \/ CheckDuplicateAnnotation \/ RegisterOpenAPIOptions

RegistrySpec == RegistryInit /\ [][RegistryNext]_registryVars

-----------------------------------------------------------------------------
\* The registry holds what its setters accept, and an error when its load
\* failed.
RegistryTypeOK ==
  /\ phase \in {"configure", "files", "services", "loaded", "failed"}
  /\ input \in Input /\ calls \subseteq input.calls
  /\ DOMAIN settings = DOMAIN DefaultSettings /\ \A f \in Flags : settings[f] \in BOOLEAN
  /\ settings.separator \in Separators
  /\ Len(aliasOf) <= Len(Files)
  /\ \A m \in DOMAIN meths : \A i \in DOMAIN meths[m] : meths[m][i].nil \in BOOLEAN
  /\ failure # "" <=> phase = "failed"

Pkg(i) == IF aliasOf[i] = "" THEN Files[i].goName ELSE aliasOf[i]

\* The name a generated file uses for a Go package tells the package: one
\* path has one name and a name one path, also of names reserved before.
\* In standalone mode the alias is the title of the package's name, which
\* is not reserved.  About loadFile and ReserveGoPackageAlias.
PackagesToldApart ==
  ~settings.standalone =>
    \A i \in DOMAIN aliasOf :
      /\ pkgAliases[Pkg(i)] = Files[i].goPath
      /\ \A j \in DOMAIN aliasOf : Pkg(i) = Pkg(j) <=> Files[i].goPath = Files[j].goPath

GeneratedMethods == UNION {ToSet(MethodsOf(f)) : f \in {g \in ToSet(Files) : g.generate}}

\* What the rules of a method ask for, in order.
Asked(m) ==
  LET rules == IF m[2].rule = NoRule THEN RulesFor(m[1]) ELSE Append(RulesFor(m[1]), m[2].rule)
  IN  FlattenSeq([i \in DOMAIN rules |->
        (IF rules[i].verb = "none" THEN <<>> ELSE <<rules[i]>>) \o rules[i].additional])

\* A binding for each rule, numbered in order; an additional rule without a
\* pattern has none, at its place.
Answer(rules, bindings) ==
  /\ Len(bindings) = Len(rules)
  /\ \A i \in 1 .. Len(rules) :
       IF rules[i].verb = "none" THEN bindings[i].nil
       ELSE ~bindings[i].nil /\ bindings[i].rule = rules[i] /\ bindings[i].index = i - 1

Accounted(m, bindings) ==
  IF m[2].rule = NoRule /\ RulesFor(m[1]) = <<>>
  THEN Len(bindings) = IF settings.generateUnboundMethods THEN 1 ELSE 0
  ELSE Answer(Asked(m), bindings)

\* No rule is lost: after a load no external one that is reported unbound has
\* bindings, and each of a method that is generated has its binding, before
\* those of the annotation and numbered in that order, whatever was skipped.
RulesAccounted ==
  phase = "loaded" =>
    /\ UnboundExternalHTTPRules \cap DOMAIN meths = {}
    /\ \A m \in GeneratedMethods : m[1] \in DOMAIN meths /\ Accounted(m, meths[m[1]])

\* The Go type of a field: protoc-gen-go's.  A field with presence is a pointer
\* unless its type is nil without one.
GoForm(f, syntax) ==
  IF f.label = "repeated" THEN "slice"
  ELSE IF /\ f.optional \/ (syntax = "proto2" /\ ~InOneof(f))
          /\ f.kind \notin {"bytes", "message"}
       THEN "pointer" ELSE "value"

\* Parameters the generator accepts and has no fitting conversion for.
Misfit(f, syntax) ==
  \/ syntax = "proto2" /\ (InOneof(f) \/ f.kind \in {"bytes", "enum"})
  \/ f.label = "repeated" /\ f.kind = "message"

GeneratedBindings == {b \in UNION {ToSet(meths[m]) : m \in DOMAIN meths} : ~b.nil}

ConversionsFit ==
  \A b \in GeneratedBindings : \A p \in ToSet(b.params) :
    LET syntax == msgs[Last(p).msg].syntax
        c      == ConvertFuncExpr(syntax, p)
    IN  Misfit(Target(p), syntax)
        \/ (c.ok /\ Provided(c.form, c.func) /\ c.form = GoForm(Target(p), syntax))

OneofsPrepared ==
  \A b \in GeneratedBindings : \A p \in ToSet(b.params) \cup {b.body} :
    LET expr == AssignableExpr(msgs, p, settings.standalone)
    IN  \A k \in DOMAIN expr : expr[k][1] = "assert" =>
          [at |-> SubSeq(expr, 1, k - 1), oneof |-> expr[k][2], holds |-> expr[k][3]]
            \in AssignableExprPrep(msgs, p, settings.standalone)

-----------------------------------------------------------------------------
\* The names the messages of a file declare, from the innermost outwards, as
\* <<name, message>>.
MessagesIn(file) == {p[2] : p \in UNION {Level(file)[d] : d \in 0 .. MaxNesting}}
DeclaredIn(file) ==
  LET names[d \in 0 .. MaxNesting] ==
        [m \in MessagesIn(file) |->
           {<<<<m.name>>, m>>}
           \cup IF d = 0 THEN {}
                ELSE UNION {{<<<<m.name>> \o n[1], n[2]>> : n \in names[d - 1][k]} : k \in ToSet(m.nested)}]
  IN  UNION {names[MaxNesting][m] : m \in ToSet(file.msgs)}

Declared == UNION {{f.pkg \o n[1] : n \in DeclaredIn(f)} : f \in ToSet(Files)}
DeclaredEnums ==
  UNION {{f.pkg \o <<e>> : e \in ToSet(f.enums)}
         \cup UNION {{(f.pkg \o n[1]) \o <<e>> : e \in ToSet(n[2].enums)} : n \in DeclaredIn(f)} :
         f \in ToSet(Files)}

ResolvableIn(names, location, name) ==
  \E i \in 0 .. Len(location) :
    (name.abs => i = 0) /\ SubSeq(location, 1, i) \o name.parts \in names
Resolvable(location, name) == ResolvableIn(Declared, location, name)

\* Services are loaded when every message and enum of every file is known,
\* nested ones under the names of all their outers: in whatever order the files
\* come, the load fails for a missing message only if some name has none, and
\* a field finds its enum if there is one.
ReferencesResolve ==
  /\ phase \in {"services", "loaded", "failed"} =>
       /\ DOMAIN msgs = Declared
       /\ \A m \in DOMAIN msgs : \A f \in ToSet(msgs[m].fields) : f.kind = "enum" =>
            (LookupEnum(m, f.type) # NotFound <=> ResolvableIn(DeclaredEnums, m, f.type))
  /\ failure = "missing" =>
       \/ \E f \in ToSet(Files) : \E m \in ToSet(MethodsOf(f)) :
            ~Resolvable(f.pkg, m[2].input) \/ ~Resolvable(f.pkg, m[2].output)
       \/ \E m \in DOMAIN msgs : \E f \in ToSet(msgs[m].fields) :
            IsAggregate(f) /\ ~Resolvable(m, f.type)
=============================================================================
