------------------------------ MODULE Settings ------------------------------
(***************************************************************************)
(* How a start comes by its settings: Load (config/config.go) step by      *)
(* step.  A setting is a field of one of the sections of Config (App,      *)
(* Server, Redis, ...); flags and defaults name it by itself.              *)
(*                                                                         *)
(* The file is read by viper, a library.  Unmarshal writes the keys of the *)
(* file into the fields of the same name and leaves the others alone; as   *)
(* the sections are no squashed fields, a setting has to stand in the      *)
(* table of its section, and at the top level no field has its name.       *)
(* AutomaticEnv is asked only for keys the file has, under the whole key   *)
(* (VINYL_SERVER.BIND_ADDR).  A file that is missing or that cannot be     *)
(* read is passed over, in whatever place of the three it is.              *)
(***************************************************************************)
EXTENDS Integers

CONSTANTS
    Names,      \* the settings
    Values,     \* the values they may have
    Malformed,  \* a text that is no value of the setting
    Unset

Texts == Values \union {Malformed, Unset}
Places == {"top", "section"}

VARIABLES
    at,         \* the step Load is at
    cfg,        \* the value of each setting
    flag,       \* what the command line gives each setting, or Unset
    env,        \* what the environment gives the whole key of each, or Unset
    file        \* what the file, if there is one, gives each in each place, or Unset

vars == <<at, cfg, flag, env, file>>
sources == <<flag, env, file>>

Init ==
    /\ at = "parse"
    /\ cfg \in [Names -> Values]
    /\ flag \in [Names -> Texts]
    /\ env \in [Names -> Texts]
    /\ file \in [Names -> [Places -> Texts]]

\* The settings whose text in the environment or in the file counts.
Given == {s \in Names : file[s]["section"] # Unset}

Text(s) == IF env[s] # Unset THEN env[s] ELSE file[s]["section"]

Fail == at' = "failed" /\ UNCHANGED <<cfg, sources>>

\* fs.Parse: the flags are bound to the fields of cfg.
Parse ==
    /\ at = "parse"
    /\ \/ (\E s \in Names : flag[s] = Malformed) /\ Fail
       \/ /\ \A s \in Names : flag[s] # Malformed
          /\ cfg' = [s \in Names |-> IF flag[s] # Unset THEN flag[s] ELSE cfg[s]]
          /\ at' = "unmarshal"
          /\ UNCHANGED sources

\* v.Unmarshal, into the same cfg.
Unmarshal ==
    /\ at = "unmarshal"
    /\ \/ (\E s \in Given : Text(s) = Malformed) /\ Fail
       \/ /\ \A s \in Given : Text(s) # Malformed
          /\ cfg' = [s \in Names |-> IF s \in Given THEN Text(s) ELSE cfg[s]]
          /\ at' = "loaded"
          /\ UNCHANGED sources

Next ==
    \/ Parse
    \/ Unmarshal
    \/ at \in {"loaded", "failed"} /\ UNCHANGED vars

Spec == Init /\ [][Next]_vars

-----------------------------------------------------------------------------
(* Properties *)

\* "Priority: CLI flags > env vars > config file > defaults" (config.go:94): a
\* setting given on the command line has that value once Load has returned.
FlagsFirst == at = "loaded" => \A s \in Names : flag[s] # Unset => cfg[s] = flag[s]
=============================================================================
