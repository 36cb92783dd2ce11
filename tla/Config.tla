------------------------------- MODULE Config -------------------------------
(***************************************************************************)
(* Loading the configuration (src/config.rs): the api_key of a provider    *)
(* may hold ${VAR} references, which are expanded from the environment, or *)
(* is looked up under a conventional name when it is absent.  The module   *)
(* has no variables; Gateway loads a configuration with it.                *)
(*                                                                         *)
(* A text is a sequence of symbols: the bracket "${", the bracket "}" and  *)
(* pieces of text without brackets.  The environment maps texts to texts.  *)
(***************************************************************************)
EXTENDS Naturals, Sequences, FiniteSetsExt, SequencesExt

CONSTANTS
    Env,             \* the environment: a function from names to values
    ConventionName   \* convention_env_var_name: provider names to variables

\* Values are texts.
ASSUME EnvAssumption == \A name \in DOMAIN Env : Env[name] \in Seq(STRING)

Opening == "${"
Closing == "}"

Absent == <<"absent">>   \* api_key: None

Expanded(value) == [err |-> "none", value |-> value]
EnvVarError(err) == [err |-> err, value |-> << >>]

\* Mutated form of expand_env_vars_with: a reference runs to the last bracket.
ExpandGreedily(text) ==
    LET opens == {i \in DOMAIN text : text[i] = Opening}
        ends  == {i \in DOMAIN text : text[i] = Closing /\ i > Min(opens)}
        name  == SubSeq(text, Min(opens) + 1, Max(ends) - 1)
    IN  IF opens = {} THEN Expanded(text)
        ELSE IF ends = {} THEN EnvVarError("unclosed")
        ELSE IF name = << >> THEN EnvVarError("empty")
        ELSE IF name \notin DOMAIN Env THEN EnvVarError("unset")
        ELSE Expanded(SubSeq(text, 1, Min(opens) - 1) \o Env[name]
                      \o SubSeq(text, Max(ends) + 1, Len(text)))

\* expand_env_vars_with: go[rest] is what the loop makes of the text from
\* position rest on.  The first error ends it.
expand_env_vars_with(text) ==
    LET go[rest \in 1..Len(text) + 1] ==
            LET opens == {i \in rest..Len(text) : text[i] = Opening}
                start == Min(opens)
                ends  == {i \in start + 1..Len(text) : text[i] = Closing}
                end   == Min(ends)
                name  == SubSeq(text, start + 1, end - 1)
                more  == go[end + 1]
            IN  IF opens = {} THEN Expanded(SubSeq(text, rest, Len(text)))
                ELSE IF ends = {} THEN EnvVarError("unclosed")
                ELSE IF name = << >> THEN EnvVarError("empty")
                ELSE IF name \notin DOMAIN Env THEN EnvVarError("unset")
                ELSE IF more.err # "none" THEN more
                ELSE Expanded(SubSeq(text, rest, start - 1) \o Env[name] \o more.value)
    IN  go[1]

\* The key of a raw provider and where it comes from.
ResolveKey(raw) ==
    LET var == ConventionName[raw.name]
    IN  IF raw.api_key = Absent
        THEN IF var \in DOMAIN Env
             THEN [err |-> "none", value |-> Env[var], source |-> "Convention"]
             ELSE [err |-> "none", value |-> Absent, source |-> "None"]
        ELSE IF Opening \in ToSet(raw.api_key)
        THEN LET e == expand_env_vars_with(raw.api_key)
             IN  [err |-> e.err, value |-> e.value, source |-> "EnvExpanded"]
        ELSE [err |-> "none", value |-> raw.api_key, source |-> "Literal"]

\* from_raw_with_lookup and validate: the first provider that cannot be
\* resolved, then the first without a URL, is the error.
from_file_with_env(file) ==
    LET keys == [i \in DOMAIN file.providers |-> ResolveKey(file.providers[i])]
        bad  == {i \in DOMAIN keys : keys[i].err # "none"}
        vain == {i \in DOMAIN keys : ~file.providers[i].url}
    IN  IF bad # {} THEN [err |-> keys[Min(bad)].err, providers |-> << >>]
        ELSE IF vain # {} THEN [err |-> "validation", providers |-> << >>]
        ELSE [err |-> "none",
              providers |-> [i \in DOMAIN keys |->
                  [file.providers[i] EXCEPT !.api_key = keys[i].value]]]
=============================================================================
