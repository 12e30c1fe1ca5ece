------------------------------- MODULE Config -------------------------------
(***************************************************************************)
(* config.New and app.createStorage: the parameters of the process, from   *)
(* its flags, its configuration file and its environment.  A parameter is  *)
(* an optional member of a section; strings and booleans are both values,  *)
(* with Zero for "" and false.  How a value is spelled is left out: a few  *)
(* values stand for those that a later step refuses.                       *)
(***************************************************************************)
EXTENDS Naturals, FiniteSets

CONSTANTS
  Params,      \* names of parameters
  SectionOf,   \* SectionOf[p]: "common", "storage", "tls" or "filter"
  DefaultOf,   \* DefaultOf[p]: the default of its flag, Zero if it has none
  FlagVals,    \* FlagVals[p]: the values the command line may give it
  FileVals,    \* FileVals[p]: those of the file
  EnvVals,     \* EnvVals[p]: those of the environment, {Unset} if it has no variable
  Focus,       \* the sets of parameters that are explored together
  Zero,        \* "" and false
  Unset,       \* a variable that is not set
  Refused      \* a value that does not parse or load

ASSUME StorageAssumption ==
  /\ "file_storage_path" \in Params
  /\ SectionOf["file_storage_path"] = "storage"

VARIABLES
  stage,     \* where New, and then createStorage, is
  path,      \* what the path of the file, a flag or CONFIG, leads to
  flag,      \* flag[p]: the value after the flags were parsed
  file,      \* file[p]: the value in the file, Zero if it names none
  sections,  \* the sections of the file
  env,       \* env[p]: the variable
  cfg,       \* the configuration in the making
  has,       \* the sections it has
  storage    \* the storage that was chosen

inputs == <<path, flag, file, sections, env>>
configVars == <<stage, inputs, cfg, has, storage>>

Optional == {"storage", "tls", "filter"}
In(p, S) == SectionOf[p] \in S

\* What one source says: something about the parameters of F, and d of the
\* others.
Says(F, vals, d) ==
  {[p \in Params |-> IF p \in F THEN f[p] ELSE d[p]] :
     f \in {g \in [F -> UNION {vals[p] : p \in F}] : \A p \in F : g[p] \in vals[p]}}

Blank == [p \in Params |-> Zero]

ConfigInit ==
  /\ stage = "flags" /\ path \in {"none", "good", "bad"}
  /\ sections \in {S \cup {"common"} : S \in SUBSET Optional}
  /\ \E F \in Focus :
       /\ flag \in Says(F, FlagVals, DefaultOf)
       /\ file \in Says({p \in F : In(p, sections)}, FileVals, Blank)
       /\ env \in Says(F, EnvVals, [p \in Params |-> Unset])
  /\ cfg = Blank /\ has = {} /\ storage = "none"

\* The flags are parsed into a configuration with every section, or refused.
ReadFlags ==
  /\ stage = "flags"
  /\ cfg' = flag /\ has' = Optional \cup {"common"}
  /\ stage' \in {"file", "error"}
  /\ UNCHANGED <<inputs, storage>>

\* With a path the file is read, and its configuration is the one to go on
\* with; sections it does not have are nil.
ReadFile ==
  /\ stage = "file"
  /\ CASE path = "none" -> stage' = "envs" /\ UNCHANGED <<cfg, has>>
       [] path = "bad"  -> stage' = "error" /\ UNCHANGED <<cfg, has>>
       [] path = "good" -> stage' = "merge" /\ cfg' = file /\ has' = sections
  /\ UNCHANGED <<inputs, storage>>

\* Mutant: a flag at its default is taken for one that was given.
MergedPlain(dst, src, def) == IF src # Zero THEN src ELSE dst

\* mergeStringDef; without a default also mergeString and mergeBool.
Merged(dst, src, def) ==
  IF src # Zero /\ (dst = Zero \/ src # def) THEN src ELSE dst

\* Mutant: the section of the storage is not merged either.
MergeNoStorage ==
  /\ stage = "merge"
  /\ cfg' = [p \in Params |->
               IF In(p, {"filter", "storage"}) THEN cfg[p]
               ELSE IF ~In(p, has) THEN flag[p]
               ELSE Merged(cfg[p], flag[p], DefaultOf[p])]
  /\ has' = has \cup {"storage", "tls"}
  /\ stage' = "envs"
  /\ UNCHANGED <<inputs, storage>>

\* The flags are merged into what the file says: a missing section is taken
\* over, a present one merged value by value.  The filter is not merged.
Merge ==
  /\ stage = "merge"
  /\ cfg' = [p \in Params |->
               IF In(p, {"filter"}) THEN cfg[p]
               ELSE IF ~In(p, has) THEN flag[p]
               ELSE Merged(cfg[p], flag[p], DefaultOf[p])]
  /\ has' = has \cup {"storage", "tls"}
  /\ stage' = "envs"
  /\ UNCHANGED <<inputs, storage>>

\* The environment overrides, with an empty value too.  The section of the
\* filter is dereferenced although the file may not have had one.
MergeEnvs ==
  /\ stage = "envs"
  /\ IF "filter" \notin has
     THEN stage' = "panic" /\ UNCHANGED cfg
     ELSE /\ cfg' = [p \in Params |-> IF env[p] = Unset THEN cfg[p] ELSE env[p]]
          /\ stage' = IF cfg'["enable"] = Refused THEN "error" ELSE "build"
  /\ UNCHANGED <<inputs, has, storage>>

\* A certificate is generated, or loaded from the two files.
TLSReady == \/ cfg["self_signed"] # Zero
            \/ {cfg["key"], cfg["cert"]} \cap {Zero, Refused} = {}

\* The base url, the certificate and the subnets are parsed.
Build ==
  /\ stage = "build"
  /\ stage' = IF \/ Refused \in {cfg["base_url"], cfg["trusted_subnets"]}
                 \/ cfg["enable"] # Zero /\ ~TLSReady
              THEN "error" ELSE "storage"
  /\ UNCHANGED <<inputs, cfg, has, storage>>

\* app.createStorage: a database, else a file, else the memory; the first
\* two may fail to open.
CreateStorage ==
  /\ stage = "storage"
  /\ LET kind == IF cfg["database_dsn"] # Zero THEN "database"
                 ELSE IF cfg["file_storage_path"] # Zero THEN "file" ELSE "memory"
     IN \/ stage' = "done" /\ storage' = kind
        \/ kind # "memory" /\ stage' = "error" /\ UNCHANGED storage
  /\ UNCHANGED <<inputs, cfg, has>>

ConfigNext ==
  \/ ReadFlags \/ ReadFile \/ Merge \/ MergeEnvs \/ Build \/ CreateStorage

ConfigSpec == ConfigInit /\ [][ConfigNext]_configVars

(***************************************************************************)
(* Properties.                                                             *)
(***************************************************************************)

Given(p) == flag[p] \notin {Zero, DefaultOf[p]}

\* The order of config.go:79, later sources first: a variable that is set, whatever
\* it holds; a flag that was given a value of its own; what the file says; the
\* flag's default, or the emptiness it was given.
InOrder(p) ==
  IF env[p] # Unset THEN env[p]
  ELSE IF path = "none" \/ Given(p) \/ file[p] = Zero THEN flag[p]
  ELSE file[p]

\* A flag of the filter beside a file, which merge forgets (FlagsOverrideFile).
Forgotten(p) ==
  In(p, {"filter"}) /\ path = "good" /\ env[p] = Unset /\ (Given(p) \/ file[p] = Zero)

\* What reaches the process follows the order of the sources, through the swap of
\* flags and file, sections that are taken over whole or merged, and defaults
\* that look like values.  Nothing is said of the flags that merge forgets.
Precedence ==
  stage \in {"build", "storage", "done"} =>
    \A p \in Params : Forgotten(p) \/ cfg[p] = InOrder(p)

\* Urls are kept in memory only, and lost at the end of the process, for
\* nobody who did not empty the path of the file: neither a file that leaves
\* the path out nor one without the section does that.
MemoryOnlyOnRequest ==
  storage = "memory" =>
    Zero \in {env["file_storage_path"], flag["file_storage_path"]}

\* config.go:79-80, "using config file, command line argument and environment variables
\* in mentioned order": a flag that was given a value overrides the file, the
\* filter's flags too.
FlagsOverrideFile ==
  stage \in {"build", "storage", "done"} =>
    \A p \in Params : env[p] = Unset /\ Given(p) => cfg[p] = flag[p]
=============================================================================
