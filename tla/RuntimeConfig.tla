--------------------------- MODULE RuntimeConfig ---------------------------
(***************************************************************************)
(* The configuration database: built-in profiles, profiles defined through *)
(* the API, configuration files, environment variables, preset and set,    *)
(* and the configuration sets the services initialise from them; and the   *)
(* check of the enabled services that follows.  A value is a list of words.*)
(***************************************************************************)
EXTENDS Integers, Sequences, FiniteSets, SequencesExt

CONSTANTS
    ConfigSets,  \* config set name -> its variables
    DefaultOf,   \* variable -> default value
    Files,       \* file name -> its lines: <<"group", name>>, <<"set", var, value>>
    Builtin,     \* the lines of builtin_profiles
    Env,         \* environment: variable -> value (some variables)
    Presets, Settings,   \* what the API calls may pass: sets of <<var, value>>
    ApiProfiles, \* profiles define_profile may be given: <<name, var, value>>
    MaxConfigCalls

VARIABLES
    combined,    \* m_combined_profile
    top,         \* m_top_profile
    profiles,    \* m_config_profiles
    database,    \* m_database
    readEnv,     \* s_allow_read_env
    warned,      \* what config_sanity_check found, <<>> before it ran
    asked        \* history: what the program asked for, and what was in force

rcfVars == <<combined, top, profiles, database, readEnv, warned, asked>>

NoVars == [v \in {} |-> <<>>]
Over(f, g) == [v \in DOMAIN f \cup DOMAIN g |-> IF v \in DOMAIN g THEN g[v] ELSE f[v]]
Entry(v, x) == [w \in {v} |-> x]
ProfileIn(ps, p) == IF p \in DOMAIN ps THEN ps[p] ELSE NoVars

RfInit ==
    /\ combined = NoVars /\ top = NoVars
    /\ profiles = [p \in {} |-> NoVars]
    /\ database = [n \in {} |-> NoVars]
    /\ readEnv = TRUE
    /\ warned = <<>>
    /\ asked = [calls |-> 0, presets |-> NoVars, defined |-> {}, late |-> FALSE,
                at |-> [n \in {} |-> <<>>]]

(***************************************************************************)
(* read_config_profiles.  A profile that ends at the next header joins     *)
(* what is known of that name, where old entries win; the last profile of  *)
(* a file replaces it.                                                     *)
(***************************************************************************)
CloseGroup(st) ==
    IF DOMAIN st.cur = {} THEN st.ps
    ELSE Over(st.ps, [p \in {st.name} |-> Over(st.cur, ProfileIn(st.ps, st.name))])

CloseFile(st) ==
    IF DOMAIN st.cur = {} THEN st.ps ELSE Over(st.ps, [p \in {st.name} |-> st.cur])

ReadLine(st, line) ==
    IF line[1] = "group" THEN [ps |-> CloseGroup(st), name |-> line[2], cur |-> NoVars]
    ELSE [st EXCEPT !.cur = Over(@, Entry(line[2], line[3]))]

RECURSIVE ReadLines(_, _)
ReadLines(st, lines) ==
    IF lines = <<>> THEN st ELSE ReadLines(ReadLine(st, Head(lines)), Tail(lines))

ReadConfigProfiles(ps, lines) ==
    CloseFile(ReadLines([ps |-> ps, name |-> "default", cur |-> NoVars], lines))

(* read_config_files: the built-in profiles, then the files that open      *)
RECURSIVE ReadConfigFiles(_, _)
ReadConfigFiles(ps, names) ==
    IF names = <<>> THEN ps
    ELSE ReadConfigFiles(IF Head(names) \in DOMAIN Files
                         THEN ReadConfigProfiles(ps, Files[Head(names)]) ELSE ps,
                         Tail(names))

(* A defect: the profile precedes the environment.                         *)
InitValueEnvLow(v, comb) ==
    IF v \in DOMAIN top THEN top[v]
    ELSE IF v \in DOMAIN comb THEN comb[v]
    ELSE IF readEnv /\ v \in DOMAIN Env THEN Env[v] ELSE DefaultOf[v]

(* ConfigSetImpl::init for one variable                                    *)
InitValue(v, comb) ==
    IF v \in DOMAIN top THEN top[v]
    ELSE IF readEnv /\ v \in DOMAIN Env THEN Env[v]
    ELSE IF v \in DOMAIN comb THEN comb[v] ELSE DefaultOf[v]

InitSet(n, comb) == [v \in ConfigSets[n] |-> InitValue(v, comb)]

(* merge all selected profiles, skipping names that are not defined        *)
RECURSIVE MergeProfiles(_, _, _)
MergeProfiles(comb, ps, names) ==
    IF names = <<>> THEN comb
    ELSE MergeProfiles(Over(comb, ProfileIn(ps, Head(names))), ps, Tail(names))

(* init_config_database: the profiles, the combined profile, the database  *)
InitDatabase ==
    LET ps == ReadConfigFiles(ReadConfigProfiles(profiles, Builtin),
                              InitValue("FILE", combined))
        withDefault == Over(combined, ProfileIn(ps, "default"))
        config == InitSet("config", withDefault)
    IN  [profiles |-> ps,
         combined |-> MergeProfiles(withDefault, ps, config["PROFILE"]),
         database |-> [n \in {"config"} |-> config]]

ReadyDb == IF DOMAIN database = {} THEN InitDatabase
         ELSE [profiles |-> profiles, combined |-> combined, database |-> database]

MayCall == asked.calls < MaxConfigCalls /\ warned = <<>>

(***************************************************************************)
(* The API: preset, set, define_profile, allow_read_env, init and get.     *)
(***************************************************************************)
Preset ==
    /\ MayCall
    /\ \E p \in Presets :
          /\ combined' = Over(combined, Entry(p[1], p[2]))
          /\ asked' = [asked EXCEPT !.calls = @ + 1,
                                    !.presets = Over(@, Entry(p[1], p[2])),
                                    !.late = @ \/ DOMAIN database # {}]
    /\ UNCHANGED <<top, profiles, database, readEnv, warned>>

SetTop ==
    /\ MayCall
    /\ \E p \in Settings : top' = Over(top, Entry(p[1], p[2]))
    /\ asked' = [asked EXCEPT !.calls = @ + 1, !.late = @ \/ DOMAIN database # {}]
    /\ UNCHANGED <<combined, profiles, database, readEnv, warned>>

DefineProfile ==
    /\ MayCall
    /\ \E p \in ApiProfiles :
          /\ profiles' = Over(profiles, [q \in {p[1]} |-> Entry(p[2], p[3])])
          /\ asked' = [asked EXCEPT !.calls = @ + 1, !.defined = @ \cup {p},
                                    !.late = @ \/ DOMAIN database # {}]
    /\ UNCHANGED <<combined, top, database, readEnv, warned>>

AllowReadEnv ==
    /\ MayCall
    /\ readEnv' = ~readEnv
    /\ asked' = [asked EXCEPT !.calls = @ + 1, !.late = @ \/ DOMAIN database # {}]
    /\ UNCHANGED <<combined, top, profiles, database, warned>>

(* init; a set that is initialised already is returned as it is            *)
ConfigInit(n) ==
    /\ warned = <<>> /\ n \notin DOMAIN database
    /\ LET r == ReadyDb
       IN  /\ profiles' = r.profiles /\ combined' = r.combined
           /\ database' = Over(r.database, [m \in {n} |-> InitSet(n, r.combined)])
    /\ asked' = [asked EXCEPT !.at = Over(@, [m \in {n} |-> <<top, readEnv>>])]
    /\ UNCHANGED <<top, readEnv, warned>>

(* get answers from the sets that are initialised, after reading the files *)
ConfigGet ==
    /\ MayCall /\ DOMAIN database = {}
    /\ LET r == ReadyDb
       IN  profiles' = r.profiles /\ combined' = r.combined /\ database' = r.database
    /\ asked' = [asked EXCEPT !.calls = @ + 1]
    /\ UNCHANGED <<top, readEnv, warned>>

(***************************************************************************)
(* config_sanity_check, on the services of the "services" set              *)
(***************************************************************************)
TriggerGrp == {"event", "sampler", "libpfm", "alloc"}
BufferGrp == {"aggregate", "trace"}
ProcessGrp == {"aggregate", "trace", "textlog"}
OnlineGrp == {"textlog"}
OfflineGrp == {"recorder", "report", "sos", "mpireport"}

Dependencies == {<<TriggerGrp, ProcessGrp>>, <<ProcessGrp, TriggerGrp>>,
                 <<BufferGrp, OfflineGrp>>, <<OnlineGrp, TriggerGrp>>,
                 <<OfflineGrp, BufferGrp>>}

Unmet(services) == {d \in Dependencies : d[1] \cap services # {} /\ d[2] \cap services = {}}

Services == ToSet(database["services"]["ENABLE"])

SanityCheck ==
    /\ warned = <<>> /\ "services" \in DOMAIN database
    /\ warned' = IF Services = {} THEN <<"none">>
                 ELSE IF Services \cap {"debug", "validator"} # {} THEN <<"skipped">>
                 ELSE IF Unmet(Services) = {} THEN <<"fine">> ELSE <<"unmet">>
    /\ UNCHANGED <<combined, top, profiles, database, readEnv, asked>>

RfNext ==
    \/ Preset \/ SetTop \/ DefineProfile \/ AllowReadEnv \/ ConfigGet \/ SanityCheck
    \/ \E n \in DOMAIN ConfigSets \ {"config"} : ConfigInit(n)

RfSpec == RfInit /\ [][RfNext]_rcfVars
-----------------------------------------------------------------------------
(* What the sources declare: the group a line belongs to, the entries.     *)
GroupOfService(lines, i) ==
    LET heads == {k \in 1..i : lines[k][1] = "group"}
    IN  IF heads = {} THEN "default"
        ELSE lines[CHOOSE k \in heads : \A j \in heads : j <= k][2]

EntriesOf(lines) ==
    {<<GroupOfService(lines, i), lines[i][2], lines[i][3]>> :
        i \in {k \in DOMAIN lines : lines[k][1] = "set"}}

ReadFiles == {f \in DOMAIN Files : \E i \in DOMAIN database["config"]["FILE"] :
                 database["config"]["FILE"][i] = f}

Sources == {EntriesOf(Builtin), asked.defined} \cup {EntriesOf(Files[f]) : f \in ReadFiles}
Declared == UNION Sources

(* No profile is declared by two sources, no variable twice in a profile   *)
DeclaredOnce ==
    /\ \A a, b \in Declared : a[1] = b[1] /\ a[2] = b[2] => a = b
    /\ \A s1, s2 \in Sources : s1 # s2 =>
          {a[1] : a \in s1} \cap {a[1] : a \in s2} = {}

SelectedProfiles == <<"default">> \o database["config"]["PROFILE"]

(* What a variable must be: the API's set, else the environment, else the  *)
(* last selected profile that declares it, else preset, else the default.  *)
MustBe(v, at) ==
    LET given == {i \in DOMAIN SelectedProfiles : \E a \in Declared : a[1] = SelectedProfiles[i] /\ a[2] = v}
        last == CHOOSE i \in given : \A j \in given : j <= i
    IN  CASE v \in DOMAIN at[1] -> at[1][v]
          [] v \notin DOMAIN at[1] /\ at[2] /\ v \in DOMAIN Env -> Env[v]
          [] v \notin DOMAIN at[1] /\ ~(at[2] /\ v \in DOMAIN Env) /\ given # {} ->
                (CHOOSE a \in Declared : a[1] = SelectedProfiles[last] /\ a[2] = v)[3]
          [] OTHER -> IF v \in DOMAIN asked.presets THEN asked.presets[v] ELSE DefaultOf[v]

(* Every service finds the value the documented precedence gives, in       *)
(* whatever order API calls and initialisations came, as long as the       *)
(* settings were made before the first initialisation (the documented      *)
(* condition) and no profile is declared twice.                            *)
Precedence ==
    ("config" \in DOMAIN database /\ ~asked.late /\ DeclaredOnce) =>
        \A n \in DOMAIN asked.at \cap DOMAIN database : n # "config" =>
            \A v \in ConfigSets[n] : database[n][v] = MustBe(v, asked.at[n])

(* A configuration the check accepts can produce output: some service      *)
(* triggers snapshots, and they are either written at once or buffered and *)
(* written out later.  (Services outside all groups do not count.)         *)
AcceptedConfigsWrite ==
    (warned = <<"fine">> /\ Services \cap (TriggerGrp \cup ProcessGrp \cup OfflineGrp) # {}) =>
        /\ Services \cap TriggerGrp # {}
        /\ \/ Services \cap OnlineGrp # {}
           \/ Services \cap BufferGrp # {} /\ Services \cap OfflineGrp # {}

(* A configuration means what it says: services find the values of the       *)
(* documented precedence, and a set of services that is accepted can write   *)
(* (RuntimeConfig.cpp, config_sanity_check.cpp).                             *)
ConfigSound == Precedence /\ AcceptedConfigsWrite
=============================================================================
