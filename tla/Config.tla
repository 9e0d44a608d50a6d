------------------------------- MODULE Config -------------------------------
(***************************************************************************)
(* The configuration of the orchestrator (config/config.go): loadDotEnv    *)
(* goes through the lines of .env and sets what the environment leaves     *)
(* empty, Load then reads the environment.                                 *)
(*                                                                         *)
(* A value is the sequence of its comma-separated parts; the empty text is *)
(* <<>>, and Blank is a part of spaces.  Lines are trimmed and lexed.      *)
(***************************************************************************)
EXTENDS Naturals, Sequences, SequencesExt

CONSTANTS
  Required,   \* the variables mustEnv reads
  Optional,   \* the variables envOr reads
  Default,    \* Default[k], for an optional variable
  Givens,     \* the environments the process may be started with
  Files,      \* the .env files: sequences of lines
  ShardURLs   \* the required variable with the addresses

Keys  == Required \cup Optional
Blank == "blank"
Empty == <<>>

(* An unset variable reads as empty, but is not set.                       *)
Unset == [set |-> FALSE, value |-> Empty]
Set(v) == [set |-> TRUE, value |-> v]

VARIABLES
  given,    \* the environment of the process as it was started
  file,     \* the lines of .env: none if there is no such file
  stage,    \* "dotenv", "resolving", "loaded" or "fatal"
  next,     \* the next line
  env,      \* the environment
  cfg       \* the configuration

vars == <<given, file, stage, next, env, cfg>>

Getenv(k) == env[k].value

Init ==
  /\ given \in Givens
  /\ file \in Files
  /\ stage = "dotenv"
  /\ next  = 1
  /\ env   = given
  /\ cfg   = [k \in {} |-> Empty]

(* The scanner gives a line.  Blank lines, comments and lines without "="  *)
(* are skipped.                                                            *)
AtLine(kind) == stage = "dotenv" /\ next <= Len(file) /\ file[next].kind = kind

(* Defect: a line without "=" ends the loop.                               *)
SkipOrStop ==
  /\ AtLine("other")
  /\ next' = Len(file) + 1
  /\ UNCHANGED <<given, file, stage, env, cfg>>

Skip ==
  /\ AtLine("other")
  /\ next' = next + 1
  /\ UNCHANGED <<given, file, stage, env, cfg>>

(* key=value: the value, without quotes, goes where there is none.         *)
SetPair ==
  /\ AtLine("pair")
  /\ env'  = IF Getenv(file[next].key) = Empty
             THEN [env EXCEPT ![file[next].key] = Set(file[next].value)] ELSE env
  /\ next' = next + 1
  /\ UNCHANGED <<given, file, stage, cfg>>

(* The end of the file, or a line too long for the scanner, whose error is *)
(* not looked at: the rest of the file is not read.                        *)
EndOfFile ==
  /\ stage = "dotenv"
  /\ next > Len(file) \/ AtLine("tooLong")
  /\ stage' = "resolving"
  /\ UNCHANGED <<given, file, next, env, cfg>>

(* parseShardURLs: the parts that are not blank.                           *)
ParseShardURLs(value) ==
  FlattenSeq([k \in DOMAIN value |-> IF value[k] = Blank THEN <<>> ELSE <<value[k]>>])

(* mustEnv ends the process, and so does main if there is no address.      *)
Missing ==
  /\ stage = "resolving"
  /\ \/ \E k \in Required : Getenv(k) = Empty
     \/ ParseShardURLs(Getenv(ShardURLs)) = Empty
  /\ stage' = "fatal"
  /\ UNCHANGED <<given, file, next, env, cfg>>

(* envOr.                                                                  *)
EnvOr(k, default) == IF Getenv(k) = Empty THEN default ELSE Getenv(k)

Load ==
  /\ stage = "resolving"
  /\ \A k \in Required : Getenv(k) # Empty
  /\ ParseShardURLs(Getenv(ShardURLs)) # Empty
  /\ cfg' = [k \in Keys |->
               CASE k = ShardURLs -> ParseShardURLs(Getenv(k))
                 [] k \in Optional -> EnvOr(k, Default[k])
                 [] OTHER -> Getenv(k)]
  /\ stage' = "loaded"
  /\ UNCHANGED <<given, file, next, env>>

Finished == stage \in {"loaded", "fatal"} /\ UNCHANGED vars

Next == Skip \/ SetPair \/ EndOfFile \/ Missing \/ Load \/ Finished

Spec == Init /\ [][Next]_vars

-----------------------------------------------------------------------------
(***************************************************************************)
(* Properties.                                                             *)
(***************************************************************************)
(* The lines the scanner gets to.                                          *)
Read == {i \in DOMAIN file : \A j \in 1 .. i : file[j].kind # "tooLong"}

(* The lines that offer a value for k.                                     *)
Offers(k) == {i \in Read : file[i].kind = "pair" /\ file[i].key = k}

(* What k is meant to be: "existing environment variables > .env file      *)
(* entries" (config.go:2), "skipping keys that are already set" (92), so   *)
(* that of the entries the first one counts.                               *)
Meant(k) ==
  IF given[k].set THEN given[k].value
  ELSE IF Offers(k) = {} THEN Empty
  ELSE LET first == CHOOSE i \in Offers(k) : \A j \in Offers(k) : i <= j
       IN  file[first].value

(* No entry comes after an empty text for k (see ExistingIsKept).          *)
NoneAfterEmpty(k) ==
  /\ given[k].set /\ given[k].value = Empty => Offers(k) = {}
  /\ \A i, j \in Offers(k) : i < j => file[i].value # Empty

(* urls are the parts listed that name an address, in the same order.      *)
InOrder(urls, listed) ==
  /\ urls # Empty
  /\ \E place \in [DOMAIN urls -> DOMAIN listed] :
       /\ \A i, j \in DOMAIN urls : i < j => place[i] < place[j]
       /\ \A i \in DOMAIN urls : urls[i] = listed[place[i]]
       /\ \A k \in DOMAIN listed : listed[k] # Blank <=> \E i \in DOMAIN urls : place[i] = k

(* Once loaded, each variable is what it is meant to be, whatever the file *)
(* holds before and after it; the addresses are those that are not blank,  *)
(* all of them and in their order, for that decides which shard is which;  *)
(* and the process gives up exactly if something required is missing       *)
(* (config.go:30-58, 62-89).  Not claimed of a variable that is set to the *)
(* empty text and has an entry after that: see ExistingIsKept.             *)
ConfigIsMeant ==
  /\ stage = "loaded" => \A k \in Keys : NoneAfterEmpty(k) =>
       /\ k \in Required => Meant(k) # Empty
       /\ IF k = ShardURLs THEN InOrder(cfg[k], Meant(k))
          ELSE cfg[k] = IF k \in Optional /\ Meant(k) = Empty THEN Default[k] ELSE Meant(k)
  /\ stage = "fatal" =>
       \/ \E k \in Required : ~NoneAfterEmpty(k) \/ Meant(k) = Empty
       \/ \A i \in DOMAIN Meant(ShardURLs) : Meant(ShardURLs)[i] = Blank

(* Violated: loadDotEnv skips "keys that are already set" (config.go:92),  *)
(* as "existing environment variables" come before the entries of .env     *)
(* (config.go:2).  A variable that is set to the empty text is overwritten *)
(* (config.go:116).                                                        *)
ExistingIsKept == \A k \in Keys : given[k].set => env[k] = given[k]
=============================================================================
