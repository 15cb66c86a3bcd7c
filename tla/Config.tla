------------------------------- MODULE Config -------------------------------
(***************************************************************************)
(* parse_config (src/store/bitstore/src/core/config.c): the settings of    *)
(* the server, each looked up in the dictionary that iniparser_load made   *)
(* of the configuration file, with a default if it is not there.           *)
(***************************************************************************)
EXTENDS IniParser

CONSTANT Default       \* stands for the default of each setting

VARIABLE config        \* the config_t, or << >> before it is filled in

configVars == <<iniVars, config>>

(* The keys asked for.                                                     *)
Asked == [
  addr            |-> <<"server", "addr">>,
  max_queue_depth |-> <<"asyncio", "max_queue_depth">>,
  timeout         |-> <<"asyncio", "timeout">>,
  aio_reap_max    |-> <<"asyncio", "aio_reap_max">>,
  block_device    |-> <<"asyncio", "block_device">>,
  dir             |-> <<"log", "dir">>,
  size            |-> <<"log", "size">>,
  flush_interval  |-> <<"log", "flush_internal">> ]

Fields == DOMAIN Asked

(* Settings whose string goes to strtol, or to snprintf as a format: they  *)
(* are dereferenced, NULL or not.  The others are printed with "%s".       *)
Dereferenced == Fields \ {"addr", "dir"}

ASSUME ConfigAssumption ==
  /\ Default # NULL
  /\ \A f \in Fields : Asked[f] # NoKey

TypeOK ==
  /\ IniTypeOK
  /\ config = << >> \/ config \in [Fields -> Vals \cup {NULL, Default}]

Init == IniInit /\ config = << >>

FoundWithoutDefault(f) == Dict!Lookup(Asked[f], NULL)     \* mutant: no default
Found(f) == Dict!Lookup(Asked[f], Default)

ParseConfig ==
  /\ pc = "loaded"
  /\ ~ Dict!SearchCrashes
  /\ \A f \in Dereferenced : Found(f) # NULL
  /\ config' = [f \in Fields |-> Found(f)]
  /\ pc' = "configured"
  /\ UNCHANGED <<file, pos, joining, section, errs, lost, dict>>

(* A key without a value, because its copy failed or because it is the     *)
(* name of a section: strtol or snprintf is called with NULL.  Or there is *)
(* no array of keys to look a setting up in.                               *)
ParseConfigCrashes ==
  /\ pc = "loaded"
  /\ Dict!SearchCrashes \/ \E f \in Dereferenced : Found(f) = NULL
  /\ pc' = "crashed"
  /\ UNCHANGED <<file, pos, joining, section, errs, lost, dict, config>>

Next ==
  \/ Load /\ UNCHANGED config
  \/ ParseConfig \/ ParseConfigCrashes

Spec == Init /\ [][Next]_configVars

-----------------------------------------------------------------------------
(* The inductive invariant.  Once loading is over the settings are those   *)
(* looked up in the dictionary, and a crash is the NULL found there unless *)
(* an array was missing.                                                   *)
SettingsFollow ==
  /\ pc = "configured" => config = [f \in Fields |-> Found(f)]
  /\ pc = "crashed" => missing # {} \/ \E f \in Dereferenced : Found(f) = NULL

Inv ==
  /\ TypeOK /\ Dict!Inv
  /\ LocalsFollow /\ OutcomeFollows /\ HoldsMeaning /\ SettingsFollow

(* A server that started has each setting from the last line of the file   *)
(* that sets it, or its default; it starts with no file that is malformed. *)
ConfiguredByFile ==
  (pc = "configured" /\ ~ lost) =>
     \A f \in Fields :
        config[f] = IF Asked[f] \in DOMAIN Meaning(Taken)
                      THEN Meaning(Taken)[Asked[f]] ELSE Default

(* It crashes only if memory ran out, for an array of the dictionary or a  *)
(* copy of a string, or if the file has a section whose name contains a    *)
(* colon.                                                                  *)
CrashesOnlyIfTold ==
  pc = "crashed" => missing # {} \/ lost \/ ~ ColonsAvoided

=============================================================================
